---- MODULE Spec2Model ----
(***************************************************************************)
(* A model of github.com/nahojer/request: the Request builder, the client  *)
(* carried by a context, Request.Do, the pipe behind WithJSONBody and      *)
(* WithXMLBody, and withResult.Do.                                         *)
(***************************************************************************)
EXTENDS Integers, Sequences, FiniteSets, TLC

VARIABLES
    DefaultClientTimeout, \* the package variable of that name
    header,               \* Request.header, by request
    timeout,              \* Request.timeout, by request: <<>> is nil, <<d>> is &d
    body,                 \* Request.body, by request
    results,              \* the withResult values handed out so far
    ctxs,                 \* the contexts derived from context.Background()
    clients,              \* the *http.Client values allocated so far
    pipes,                \* the io.Pipe values, each with its encoder goroutine
    calls,                \* the invocations of Do
    last,                 \* the latest builder call (history)
    ncalls                \* the number of builder calls made (history)

vars == <<DefaultClientTimeout, header, timeout, body, results, ctxs, clients,
          pipes, calls, last, ncalls>>

(***************************************************************************)
(* Bounds of the model.                                                    *)
(***************************************************************************)
MaxOps == 3        \* builder calls in one behaviour
MaxCtx == 2        \* contexts derived from the background context
MaxClients == 3    \* clients allocated in one behaviour
MaxOwned == 1      \* clients among them that the caller allocates
MaxPipes == 2      \* pipes created in one behaviour
MaxRead == 2       \* size of the transport's read buffer

Requests == {"r1", "r2"}
Calls == {"c1", "c2"}

(***************************************************************************)
(* Constants of the program.                                               *)
(***************************************************************************)
wildcardMIME == "*/*"
jsonMIME == "application/json"
xmlMIME == "application/xml"
Minute == 60       \* time.Minute, in seconds

Durations == {10, 20}

(***************************************************************************)
(* Header names are sequences of characters, so that the canonical form    *)
(* is computed and not assumed.                                            *)
(***************************************************************************)
Lower == <<"a", "b", "c", "d", "e", "f", "g", "h", "i", "j", "k", "l", "m",
           "n", "o", "p", "q", "r", "s", "t", "u", "v", "w", "x", "y", "z">>
Upper == <<"A", "B", "C", "D", "E", "F", "G", "H", "I", "J", "K", "L", "M",
           "N", "O", "P", "Q", "R", "S", "T", "U", "V", "W", "X", "Y", "Z">>

IsLower(c) == \E i \in DOMAIN Lower : Lower[i] = c
IsUpper(c) == \E i \in DOMAIN Upper : Upper[i] = c
ToUpper(c) == IF IsLower(c) THEN Upper[CHOOSE i \in DOMAIN Lower : Lower[i] = c] ELSE c
ToLower(c) == IF IsUpper(c) THEN Lower[CHOOSE i \in DOMAIN Upper : Upper[i] = c] ELSE c

\* textproto.validHeaderFieldByte on the model's alphabet: letters and "-"
\* are token characters, the space is not.
validHeaderFieldByte(c) == IsLower(c) \/ IsUpper(c) \/ c = "-"

\* textproto.CanonicalMIMEHeaderKey: a name holding a byte that is no token
\* character is returned as it is; otherwise the first letter and every
\* letter after a "-" is upper case, the others lower case.
CanonicalMIMEHeaderKey(s) ==
    IF \E i \in DOMAIN s : ~validHeaderFieldByte(s[i])
    THEN s
    ELSE [i \in DOMAIN s |->
            IF i = 1 \/ s[i - 1] = "-" THEN ToUpper(s[i]) ELSE ToLower(s[i])]

AcceptKey == <<"A", "c", "c", "e", "p", "t">>
ContentTypeKey == <<"C", "o", "n", "t", "e", "n", "t", "-", "T", "y", "p", "e">>

\* The names the caller passes to WithHeader and WithMultiValuedHeader.
HeaderNames ==
    { AcceptKey,
      <<"a", "c", "c", "e", "p", "t">>,
      <<"x", " ", "i", "d">>,
      <<"X", " ", "I", "D">> }

\* The values the caller passes.
HeaderValues == {"", xmlMIME}

\* http.Header is a map from canonical key to the values under it.
EmptyHeader == [k \in {} |-> <<>>]

\* h[key] of the Go map: the zero value (no values) for a key not in it.
MapValues(h, ck) == IF ck \in DOMAIN h THEN h[ck] ELSE <<>>

\* http.Header.Values
HeaderValuesOf(h, key) == MapValues(h, CanonicalMIMEHeaderKey(key))

\* http.Header.Get: the first value under the canonical key, "" without one.
HeaderGet(h, key) ==
    LET v == HeaderValuesOf(h, key)
    IN  IF Len(v) = 0 THEN "" ELSE v[1]

\* http.Header.Set: the values under the canonical key become the one value.
HeaderSet(h, key, value) ==
    LET ck == CanonicalMIMEHeaderKey(key)
    IN  [k \in DOMAIN h \cup {ck} |-> IF k = ck THEN <<value>> ELSE h[k]]

\* An Add that replaces the values under the key, as Set does.
HeaderAddReplacing(h, key, value) ==
    LET ck == CanonicalMIMEHeaderKey(key)
    IN  [k \in DOMAIN h \cup {ck} |-> IF k = ck THEN <<value>> ELSE h[k]]

\* http.Header.Add: the value is appended to those under the canonical key.
HeaderAdd(h, key, value) ==
    LET ck == CanonicalMIMEHeaderKey(key)
    IN  [k \in DOMAIN h \cup {ck} |->
            IF k = ck THEN Append(MapValues(h, ck), value) ELSE h[k]]

(***************************************************************************)
(* The history of builder calls.                                           *)
(***************************************************************************)
NoCall == [seq |-> 0, op |-> "none", req |-> "", key |-> <<>>, value |-> ""]

\* A request is configured, dispatched and then discarded: every builder
\* call on it precedes its dispatch.
Record(op, r, key, value) ==
    /\ \A c \in Calls : calls[c].req # r
    /\ ncalls < MaxOps
    /\ ncalls' = ncalls + 1
    /\ last' = [seq |-> ncalls + 1, op |-> op, req |-> r, key |-> key, value |-> value]

(***************************************************************************)
(* The builder.                                                            *)
(***************************************************************************)

\* Request.WithHeader
WithHeader(r, key, value) ==
    /\ Record("WithHeader", r, key, value)
    /\ header' = [header EXCEPT ![r] = HeaderSet(@, key, value)]
    /\ UNCHANGED <<DefaultClientTimeout, timeout, body, results, ctxs, clients, pipes, calls>>

\* Request.WithMultiValuedHeader
WithMultiValuedHeader(r, key, value) ==
    /\ Record("WithMultiValuedHeader", r, key, value)
    /\ header' = [header EXCEPT ![r] = HeaderAdd(@, key, value)]
    /\ UNCHANGED <<DefaultClientTimeout, timeout, body, results, ctxs, clients, pipes, calls>>

\* Request.WithContentType
WithContentType(r, s) ==
    /\ Record("WithContentType", r, ContentTypeKey, s)
    /\ header' = [header EXCEPT ![r] = HeaderSet(@, ContentTypeKey, s)]
    /\ UNCHANGED <<DefaultClientTimeout, timeout, body, results, ctxs, clients, pipes, calls>>

\* Request.WithTimeout
WithTimeout(r, d) ==
    /\ Record("WithTimeout", r, <<>>, "")
    /\ timeout' = [timeout EXCEPT ![r] = <<d>>]
    /\ UNCHANGED <<DefaultClientTimeout, header, body, results, ctxs, clients, pipes, calls>>

\* The Accept header after WithJSONResult or WithXMLResult: set to the MIME
\* type when Get finds no value or an empty first value.
AcceptDefaulted(h, mime) ==
    IF HeaderGet(h, AcceptKey) = "" THEN HeaderSet(h, AcceptKey, mime) ELSE h

\* Request.WithResult
WithResult(r) ==
    /\ Record("WithResult", r, <<>>, "")
    /\ results' = results \cup {[req |-> r, unmarshal |-> "nil"]}
    /\ UNCHANGED <<DefaultClientTimeout, header, timeout, body, ctxs, clients, pipes, calls>>

\* Request.WithJSONResult
WithJSONResult(r) ==
    /\ Record("WithJSONResult", r, <<>>, "")
    /\ header' = [header EXCEPT ![r] = AcceptDefaulted(@, jsonMIME)]
    /\ results' = results \cup {[req |-> r, unmarshal |-> "json"]}
    /\ UNCHANGED <<DefaultClientTimeout, timeout, body, ctxs, clients, pipes, calls>>

\* Request.WithXMLResult
WithXMLResult(r) ==
    /\ Record("WithXMLResult", r, <<>>, "")
    /\ header' = [header EXCEPT ![r] = AcceptDefaulted(@, xmlMIME)]
    /\ results' = results \cup {[req |-> r, unmarshal |-> "xml"]}
    /\ UNCHANGED <<DefaultClientTimeout, timeout, body, ctxs, clients, pipes, calls>>

(***************************************************************************)
(* Contexts and clients.                                                   *)
(***************************************************************************)

\* ctx.Value(clientContextKey): the value of the nearest context on the
\* parent chain that carries the key; context 0 is context.Background().
RECURSIVE ContextValue(_)
ContextValue(ctx) ==
    IF ctx = 0 THEN [ok |-> FALSE, c |-> 0]
    ELSE IF ctxs[ctx].key = "clientContextKey" THEN [ok |-> TRUE, c |-> ctxs[ctx].client]
    ELSE ContextValue(ctxs[ctx].parent)

\* The caller allocates a client: &http.Client{Timeout: d, Transport: t}.
NewClient(d, t) ==
    /\ Len(clients) < MaxOwned
    /\ clients' = Append(clients, [Timeout |-> d, Transport |-> t, made |-> "caller"])
    /\ UNCHANGED <<DefaultClientTimeout, header, timeout, body, results, ctxs, pipes,
                   calls, last, ncalls>>

\* AttachClientToContext(ctx, c); c = 0 is a nil *http.Client.
AttachClientToContext(ctx, c) ==
    /\ Len(ctxs) < MaxCtx
    /\ ctxs' = Append(ctxs, [parent |-> ctx, key |-> "clientContextKey", client |-> c])
    /\ UNCHANGED <<DefaultClientTimeout, header, timeout, body, results, clients, pipes,
                   calls, last, ncalls>>

\* A context derived in any other way (context.WithCancel, a value under
\* another key): it carries nothing under clientContextKey.
DeriveContext(ctx) ==
    /\ Len(ctxs) < MaxCtx
    /\ ctxs' = Append(ctxs, [parent |-> ctx, key |-> "other", client |-> 0])
    /\ UNCHANGED <<DefaultClientTimeout, header, timeout, body, results, clients, pipes,
                   calls, last, ncalls>>

\* Whether clientFromContext returns the client the context carries.
Attached(ctx) == ContextValue(ctx).ok /\ ContextValue(ctx).c # 0

\* The default client of clientFromContext.
DefaultClient ==
    [Timeout |-> DefaultClientTimeout, Transport |-> "default", made |-> "clientFromContext"]

\* A clientFromContext that returns a copy of the client the context carries.
clientFromContextCopy(ctx) ==
    IF Attached(ctx)
    THEN [c |-> Len(clients) + 1, heap |-> Append(clients, clients[ContextValue(ctx).c])]
    ELSE [c |-> Len(clients) + 1, heap |-> Append(clients, DefaultClient)]

\* A clientFromContext that keeps the default client it has made once.
clientFromContextCached(ctx) ==
    IF Attached(ctx)
    THEN [c |-> ContextValue(ctx).c, heap |-> clients]
    ELSE IF \E h \in DOMAIN clients : clients[h].made = "clientFromContext"
    THEN [c |-> CHOOSE h \in DOMAIN clients : clients[h].made = "clientFromContext",
          heap |-> clients]
    ELSE [c |-> Len(clients) + 1, heap |-> Append(clients, DefaultClient)]

\* clientFromContext: the client returned and the heap after the call. The
\* client the context carries is returned as it is; without one a default
\* client is allocated.
clientFromContext(ctx) ==
    IF Attached(ctx)
    THEN [c |-> ContextValue(ctx).c, heap |-> clients]
    ELSE [c |-> Len(clients) + 1, heap |-> Append(clients, DefaultClient)]

\* An assignment to the package variable DefaultClientTimeout, made while
\* no Do is running (an assignment during one is a data race).
SetDefaultClientTimeout(d) ==
    /\ \A c \in Calls : calls[c].pc \in {"idle", "done"}
    /\ d # DefaultClientTimeout
    /\ DefaultClientTimeout' = d
    /\ UNCHANGED <<header, timeout, body, results, ctxs, clients, pipes, calls, last, ncalls>>

(***************************************************************************)
(* Request.Do                                                              *)
(***************************************************************************)
\* The method and URL passed to Do: well formed, a method that is no
\* token, a URL without a scheme.
Targets ==
    { [method |-> "POST", url |-> "http://localhost"],
      [method |-> "BAD METHOD", url |-> "http://localhost"],
      [method |-> "POST", url |-> "://localhost"] }

\* http.NewRequestWithContext fails on a method that is no token and on a
\* URL that does not parse.
\* A validMethod that lets every method pass.
validMethodAny(m) == TRUE

validMethod(m) == m \in {"", "GET", "POST"}
ParsesURL(u) == u \in {"http://localhost"}

NoErr == [kind |-> "nil", cause |-> "nil"]
NoResp == [status |-> 0, kind |-> "none", pipe |-> 0, data |-> <<>>, fail |-> FALSE]
NoResult == [nil |-> TRUE, status |-> 0, RawData |-> <<>>]

IdleCall ==
    [pc |-> "idle", req |-> "", wr |-> "none", ctx |-> 0,
     target |-> [method |-> "", url |-> ""], client |-> 0,
     execTimeout |-> <<>>, nExec |-> 0, sentHeader |-> EmptyHeader,
     reqBody |-> [kind |-> "nil", id |-> 0], sentBody |-> <<>>, reqEOF |-> FALSE,
     resp |-> NoResp, respClosed |-> 0, raw |-> <<>>, decoded |-> <<>>,
     err |-> NoErr, result |-> NoResult]

\* The unmarshal functions of the withResult values made from request r,
\* and "none" for a call of Request.Do itself.
Via(r) == {"none"} \cup {w.unmarshal : w \in {x \in results : x.req = r}}

\* Request.Do up to clientFromContext: the request is constructed, and on
\* success the client is resolved.
DoBegin(c, r, wr, ctx, method, url) ==
    /\ calls[c].pc = "idle"
    /\ IF ~(validMethod(method) /\ ParsesURL(url))
       THEN /\ calls' = [calls EXCEPT ![c] =
                 [@ EXCEPT !.pc = "done", !.req = r, !.wr = wr, !.ctx = ctx,
                           !.target = [method |-> method, url |-> url],
                           !.err = [kind |-> "construct", cause |-> "net/http"]]]
            /\ UNCHANGED clients
       ELSE /\ Len(clientFromContext(ctx).heap) <= MaxClients
            /\ clients' = clientFromContext(ctx).heap
            /\ calls' = [calls EXCEPT ![c] =
                 [@ EXCEPT !.pc = "resolved", !.req = r, !.wr = wr, !.ctx = ctx,
                           !.target = [method |-> method, url |-> url],
                           !.reqBody = body[r],
                           !.client = clientFromContext(ctx).c]]
    /\ UNCHANGED <<DefaultClientTimeout, header, timeout, body, results, ctxs, pipes,
                   last, ncalls>>

\* A Do that leaves the resolved client as it is.
TimeoutNotApplied(r, h) == clients

\* The heap after "if r.timeout != nil { c.Timeout = *r.timeout }".
TimeoutApplied(r, h) ==
    IF timeout[r] # <<>> THEN [clients EXCEPT ![h].Timeout = timeout[r][1]] ELSE clients

\* Request.Do: the per-call timeout is written into the resolved client.
DoSetTimeout(c) ==
    /\ calls[c].pc = "resolved"
    /\ clients' = TimeoutApplied(calls[c].req, calls[c].client)
    /\ calls' = [calls EXCEPT ![c].pc = "configured"]
    /\ UNCHANGED <<DefaultClientTimeout, header, timeout, body, results, ctxs, pipes,
                   last, ncalls>>

\* The timeout c.Do(req) runs the request under: the client's, read when
\* the request is sent.
ExecTimeout(h) == clients[h].Timeout

\* Request.Do: c.Do(req) hands the request to the client's transport.
DoSend(c) ==
    /\ calls[c].pc = "configured"
    /\ calls' = [calls EXCEPT ![c] =
          [@ EXCEPT !.pc = "sending",
                    !.execTimeout = <<ExecTimeout(calls[c].client)>>,
                    !.nExec = @ + 1,
                    !.sentHeader = header[calls[c].req]]]
    /\ UNCHANGED <<DefaultClientTimeout, header, timeout, body, results, ctxs, clients,
                   pipes, last, ncalls>>

(***************************************************************************)
(* Encoding and decoding, on a small alphabet of bytes.                    *)
(***************************************************************************)
DigitChars == <<"0", "1", "2", "3", "4", "5", "6", "7", "8", "9">>
IsDigit(b) == \E i \in DOMAIN DigitChars : DigitChars[i] = b
DigitValue(b) == (CHOOSE i \in DOMAIN DigitChars : DigitChars[i] = b) - 1

\* strconv's decimal form of a natural number.
RECURSIVE Digits(_)
Digits(n) ==
    IF n < 10 THEN <<DigitChars[n + 1]>>
    ELSE Digits(n \div 10) \o <<DigitChars[(n % 10) + 1]>>

RECURSIVE ParseDigits(_)
ParseDigits(d) ==
    IF Len(d) = 0 THEN 0
    ELSE 10 * ParseDigits(SubSeq(d, 1, Len(d) - 1)) + DigitValue(d[Len(d)])

\* json.Marshal: the standalone serialization.
JSONMarshal(v) ==
    IF v.t = "int" THEN [bytes |-> Digits(v.n), err |-> "nil"]
    ELSE [bytes |-> <<>>, err |-> "json: unsupported type"]

\* An Encode that writes the serialization alone.
JSONEncodeNoNewline(v) ==
    IF JSONMarshal(v).err # "nil"
    THEN [chunks |-> <<>>, err |-> JSONMarshal(v).err]
    ELSE [chunks |-> <<JSONMarshal(v).bytes>>, err |-> "nil"]

\* json.Encoder.Encode: the serialization and a newline, in one Write;
\* nothing is written when marshalling fails.
JSONEncode(v) ==
    IF JSONMarshal(v).err # "nil"
    THEN [chunks |-> <<>>, err |-> JSONMarshal(v).err]
    ELSE [chunks |-> <<JSONMarshal(v).bytes \o <<"\n">>>>, err |-> "nil"]

\* xml.Marshal
XMLMarshal(v) ==
    IF v.t = "int" THEN [bytes |-> <<"<int>">> \o Digits(v.n) \o <<"</int>">>, err |-> "nil"]
    ELSE [bytes |-> <<>>, err |-> "xml: unsupported type"]

\* xml.Encoder.Encode writes through a bufio.Writer: the whole output is
\* flushed on success; on failure what filled the buffer before the failing
\* field has been written already.
XMLEncode(v) ==
    IF v.t = "int" THEN [chunks |-> <<XMLMarshal(v).bytes>>, err |-> "nil"]
    ELSE IF v.t = "bigchan" THEN [chunks |-> <<<<"<big>">>>>, err |-> XMLMarshal(v).err]
    ELSE [chunks |-> <<>>, err |-> XMLMarshal(v).err]

Encode(format, v) == IF format = "json" THEN JSONEncode(v) ELSE XMLEncode(v)

\* The bytes without the white space at their end.
RECURSIVE TrimRight(_)
TrimRight(d) ==
    IF Len(d) > 0 /\ d[Len(d)] = "\n" THEN TrimRight(SubSeq(d, 1, Len(d) - 1)) ELSE d

IsNumber(d) ==
    /\ Len(d) > 0
    /\ \A i \in DOMAIN d : IsDigit(d[i])
    /\ Len(d) > 1 => d[1] # "0"

\* json.Unmarshal into a number.
JSONUnmarshal(data) ==
    IF IsNumber(TrimRight(data))
    THEN [err |-> "nil", v |-> <<ParseDigits(TrimRight(data))>>]
    ELSE [err |-> "json: syntax error", v |-> <<>>]

\* xml.Unmarshal into a number.
XMLUnmarshal(data) ==
    LET d == TrimRight(data)
    IN  IF /\ Len(d) >= 3
           /\ d[1] = "<int>"
           /\ d[Len(d)] = "</int>"
           /\ \A i \in 2..(Len(d) - 1) : IsDigit(d[i])
        THEN [err |-> "nil", v |-> <<ParseDigits(SubSeq(d, 2, Len(d) - 1))>>]
        ELSE [err |-> "xml: syntax error", v |-> <<>>]

(***************************************************************************)
(* io.Pipe and the encoder goroutine.                                      *)
(***************************************************************************)
ErrClosedPipe == "io: read/write on closed pipe"

\* A pipe that buffers: the Writes of the encoder complete without a reader.
NewPipeBuffered(format, v) ==
    [format |-> format, value |-> v, pc |-> "write",
     pending |-> <<>>, result |-> Encode(format, v).err,
     werr |-> "nil", rerr |-> "nil", delivered |-> <<>>]

\* The pipe made by WithJSONBody or WithXMLBody, with the goroutine that
\* encodes v into it: pending holds the Writes the encoder has yet to
\* complete (the first is offered to the reader), result the error Encode
\* returns once they are done.
NewPipe(format, v) ==
    [format |-> format, value |-> v, pc |-> "write",
     pending |-> Encode(format, v).chunks, result |-> Encode(format, v).err,
     werr |-> "nil", rerr |-> "nil", delivered |-> <<>>]

\* The pipe's done channel is closed.
PipeDone(p) == p.werr # "nil" \/ p.rerr # "nil"

\* pipe.readCloseError
readCloseError(p) == IF p.rerr = "nil" /\ p.werr # "nil" THEN p.werr ELSE ErrClosedPipe

\* pipe.writeCloseError
writeCloseError(p) == IF p.werr = "nil" /\ p.rerr # "nil" THEN p.rerr ELSE ErrClosedPipe

\* A Read neither blocks on a closed pipe nor on one with a Write pending.
CanRead(p) == PipeDone(p) \/ p.pending # <<>>

Min(a, b) == IF a < b THEN a ELSE b

\* pipe.read into a buffer of n bytes: the bytes, the error, the pipe after.
PipeRead(p, n) ==
    IF PipeDone(p) THEN [data |-> <<>>, err |-> readCloseError(p), pipe |-> p]
    ELSE LET w == Head(p.pending)
             k == Min(n, Len(w))
             got == SubSeq(w, 1, k)
         IN  [data |-> got, err |-> "nil",
              pipe |-> [p EXCEPT !.pending = IF k = Len(w) THEN Tail(@)
                                             ELSE <<SubSeq(w, k + 1, Len(w))>> \o Tail(@),
                                 !.delivered = @ \o got]]

\* PipeReader.Close
closeRead(p) == [p EXCEPT !.rerr = IF @ = "nil" THEN ErrClosedPipe ELSE @]

\* The error the goroutine passes to CloseWithError: that of the Write the
\* closed pipe refused, else the error of Encode.
EncodeResult(p) == IF p.pending # <<>> THEN writeCloseError(p) ELSE p.result

\* A goroutine that closes the pipe without the error of Encode.
closeWriteNoError(p, err) ==
    [p EXCEPT !.werr = IF @ # "nil" THEN @ ELSE "EOF", !.pending = <<>>, !.pc = "exited"]

\* PipeWriter.CloseWithError: a nil error closes with io.EOF.
closeWrite(p, err) ==
    [p EXCEPT !.werr = IF @ # "nil" THEN @ ELSE IF err = "nil" THEN "EOF" ELSE err,
              !.pending = <<>>, !.pc = "exited"]

\* The goroutine of WithJSONBody and WithXMLBody: Encode has returned, all
\* written or refused by a closed pipe, and the pipe is closed with its
\* error.
ProducerClose(i) ==
    /\ i \in DOMAIN pipes
    /\ pipes[i].pc = "write"
    /\ pipes[i].pending = <<>> \/ PipeDone(pipes[i])
    /\ pipes' = [pipes EXCEPT ![i] = closeWrite(@, EncodeResult(@))]
    /\ UNCHANGED <<DefaultClientTimeout, header, timeout, body, results, ctxs, clients,
                   calls, last, ncalls>>

\* Request.WithBody; the only reader passed is nil.
WithBody(r) ==
    /\ Record("WithBody", r, <<>>, "")
    /\ body' = [body EXCEPT ![r] = [kind |-> "nil", id |-> 0]]
    /\ UNCHANGED <<DefaultClientTimeout, header, timeout, results, ctxs, clients, pipes, calls>>

\* The Content-Type header after WithJSONBody or WithXMLBody.
ContentTypeSet(h, mime) == HeaderSet(h, ContentTypeKey, mime)

\* Request.WithJSONBody
WithJSONBody(r, v) ==
    /\ Len(pipes) < MaxPipes
    /\ Record("WithJSONBody", r, <<>>, "")
    /\ pipes' = Append(pipes, NewPipe("json", v))
    /\ body' = [body EXCEPT ![r] = [kind |-> "pipe", id |-> Len(pipes) + 1]]
    /\ header' = [header EXCEPT ![r] = ContentTypeSet(@, jsonMIME)]
    /\ UNCHANGED <<DefaultClientTimeout, timeout, results, ctxs, clients, calls>>

\* Request.WithXMLBody
WithXMLBody(r, v) ==
    /\ Len(pipes) < MaxPipes
    /\ Record("WithXMLBody", r, <<>>, "")
    /\ pipes' = Append(pipes, NewPipe("xml", v))
    /\ body' = [body EXCEPT ![r] = [kind |-> "pipe", id |-> Len(pipes) + 1]]
    /\ header' = [header EXCEPT ![r] = ContentTypeSet(@, xmlMIME)]
    /\ UNCHANGED <<DefaultClientTimeout, timeout, results, ctxs, clients, calls>>

(***************************************************************************)
(* The transport: http.DefaultTransport, or the RoundTripper of the        *)
(* package's example, which answers with the request body.                 *)
(***************************************************************************)
Transports == {"default", "echo"}
\* The responses the default transport delivers: the status, the body, and
\* whether reading the body fails after its bytes.
Responses ==
    { [status |-> 200, data |-> <<"1", "2">>, fail |-> FALSE],
      [status |-> 400, data |-> <<"{">>, fail |-> FALSE],
      [status |-> 200, data |-> <<"<int>", "7", "</int>">>, fail |-> FALSE],
      [status |-> 200, data |-> <<"1", "2">>, fail |-> TRUE] }

\* Request.Do has returned to withResult.Do, or to the caller.
Returned(call) ==
    [call EXCEPT !.pc = IF call.wr = "none" \/ call.err.kind # "nil"
                        THEN "done" ELSE "reading"]

\* The pipes after the transport has closed the request body.
RequestBodyClosed(call) ==
    IF call.reqBody.kind = "pipe"
    THEN [pipes EXCEPT ![call.reqBody.id] = closeRead(@)]
    ELSE pipes

\* The name consists of token characters; the default transport refuses
\* to write a request with another header name.
ValidName(a) == \A i \in DOMAIN a : validHeaderFieldByte(a[i])

Sending(c, t) ==
    /\ calls[c].pc = "sending"
    /\ clients[calls[c].client].Transport = t

\* The default transport reads the request body into a buffer of n bytes.
\* A read error ends the round trip: c.Do returns it.
TransportRead(c, n) ==
    /\ Sending(c, "default")
    /\ calls[c].reqBody.kind = "pipe"
    /\ ~calls[c].reqEOF
    /\ CanRead(pipes[calls[c].reqBody.id])
    /\ LET i == calls[c].reqBody.id
           rd == PipeRead(pipes[i], n)
       IN  CASE rd.err = "nil" ->
                  /\ pipes' = [pipes EXCEPT ![i] = rd.pipe]
                  /\ calls' = [calls EXCEPT ![c].sentBody = @ \o rd.data]
             [] rd.err = "EOF" ->
                  /\ pipes' = pipes
                  /\ calls' = [calls EXCEPT ![c].reqEOF = TRUE]
             [] OTHER ->
                  /\ pipes' = RequestBodyClosed(calls[c])
                  /\ calls' = [calls EXCEPT ![c] =
                        Returned([@ EXCEPT !.err = [kind |-> "transport", cause |-> rd.err]])]
    /\ UNCHANGED <<DefaultClientTimeout, header, timeout, body, results, ctxs, clients,
                   last, ncalls>>

\* The default transport receives a response; the server may answer before
\* the request body is read to its end. The request body is closed.
TransportRespond(c, status, data, fail) ==
    /\ Sending(c, "default")
    /\ \A k \in DOMAIN calls[c].sentHeader : ValidName(k)
    /\ pipes' = RequestBodyClosed(calls[c])
    /\ calls' = [calls EXCEPT ![c] =
          Returned([@ EXCEPT !.resp = [status |-> status, kind |-> "static", pipe |-> 0,
                                       data |-> data, fail |-> fail]])]
    /\ UNCHANGED <<DefaultClientTimeout, header, timeout, body, results, ctxs, clients,
                   last, ncalls>>

\* The round trip fails: the network, the client's timeout, the context.
TransportFail(c) ==
    /\ Sending(c, "default")
    /\ pipes' = RequestBodyClosed(calls[c])
    /\ calls' = [calls EXCEPT ![c] =
          Returned([@ EXCEPT !.err = [kind |-> "transport", cause |-> "net/http"]])]
    /\ UNCHANGED <<DefaultClientTimeout, header, timeout, body, results, ctxs, clients,
                   last, ncalls>>

\* The example's RoundTripper: status 200 and the request body as the
\* response body (an empty body for a request without one).
TransportEcho(c) ==
    /\ Sending(c, "echo")
    /\ calls' = [calls EXCEPT ![c] =
          Returned([@ EXCEPT !.resp =
              IF calls[c].reqBody.kind = "pipe"
              THEN [status |-> 200, kind |-> "pipe", pipe |-> calls[c].reqBody.id,
                    data |-> <<>>, fail |-> FALSE]
              ELSE [status |-> 200, kind |-> "static", pipe |-> 0,
                    data |-> <<>>, fail |-> FALSE]])]
    /\ UNCHANGED <<DefaultClientTimeout, header, timeout, body, results, ctxs, clients,
                   pipes, last, ncalls>>

(***************************************************************************)
(* withResult.Do                                                           *)
(***************************************************************************)
ReadAllBuf == 512  \* the buffer io.ReadAll starts with

\* wr.unmarshal(data); a withResult made by WithResult has none.
Unmarshal(kind, data) ==
    IF kind = "json" THEN JSONUnmarshal(data)
    ELSE IF kind = "xml" THEN XMLUnmarshal(data)
    ELSE [err |-> "nil", v |-> <<>>]

\* What withResult.Do returns once io.ReadAll has ended with readErr
\* (io.EOF: the body was read to its end).
ResultOf(call, readErr) ==
    IF readErr # "EOF"
    THEN [result |-> NoResult, decoded |-> <<>>,
          err |-> [kind |-> "bodyread", cause |-> readErr]]
    ELSE IF Unmarshal(call.wr, call.raw).err # "nil"
    THEN [result |-> NoResult, decoded |-> <<>>,
          err |-> [kind |-> "decode", cause |-> Unmarshal(call.wr, call.raw).err]]
    ELSE [result |-> [nil |-> FALSE, status |-> call.resp.status, RawData |-> call.raw],
          decoded |-> Unmarshal(call.wr, call.raw).v,
          err |-> NoErr]

\* A Close that is reached only when the body was read to its end.
CloseAfterFullRead(readErr) == readErr = "EOF"

\* Whether the deferred resp.Body.Close() runs on the return after readErr.
DeferredClose(readErr) == TRUE

\* withResult.Do returns.
Finished(call, readErr) ==
    [call EXCEPT !.pc = "done",
                 !.result = ResultOf(call, readErr).result,
                 !.decoded = ResultOf(call, readErr).decoded,
                 !.err = ResultOf(call, readErr).err,
                 !.respClosed = IF DeferredClose(readErr) THEN @ + 1 ELSE @]

\* What a Read of the response body returns next: the bytes and the error.
BodyRead(call, n) ==
    IF call.resp.kind = "pipe" THEN
        [data |-> PipeRead(pipes[call.resp.pipe], n).data,
         err |-> PipeRead(pipes[call.resp.pipe], n).err]
    ELSE IF call.respClosed > 0 THEN
        [data |-> <<>>, err |-> "http: read on closed response body"]
    ELSE IF Len(call.raw) < Len(call.resp.data) THEN
        [data |-> SubSeq(call.resp.data, Len(call.raw) + 1,
                         Min(Len(call.resp.data), Len(call.raw) + n)),
         err |-> "nil"]
    ELSE [data |-> <<>>, err |-> IF call.resp.fail THEN "unexpected EOF" ELSE "EOF"]

\* withResult.Do: one Read of io.ReadAll; at the end of the body, or at a
\* read error, the data is decoded, the body closed and the call returns.
ResultRead(c) ==
    /\ calls[c].pc = "reading"
    /\ calls[c].resp.kind = "pipe" => CanRead(pipes[calls[c].resp.pipe])
    /\ LET rd == BodyRead(calls[c], ReadAllBuf)
       IN  IF rd.err = "nil"
           THEN /\ calls' = [calls EXCEPT ![c].raw = @ \o rd.data]
                /\ pipes' = IF calls[c].resp.kind = "pipe"
                            THEN [pipes EXCEPT ![calls[c].resp.pipe] =
                                      PipeRead(@, ReadAllBuf).pipe]
                            ELSE pipes
           ELSE /\ calls' = [calls EXCEPT ![c] = Finished(@, rd.err)]
                /\ pipes' = IF calls[c].resp.kind = "pipe" /\ DeferredClose(rd.err)
                            THEN [pipes EXCEPT ![calls[c].resp.pipe] = closeRead(@)]
                            ELSE pipes
    /\ UNCHANGED <<DefaultClientTimeout, header, timeout, body, results, ctxs, clients,
                   last, ncalls>>

(***************************************************************************)
(* The state after package initialisation and New().                       *)
(***************************************************************************)
Init ==
    /\ DefaultClientTimeout = Minute
    /\ header = [r \in Requests |-> EmptyHeader]
    /\ timeout = [r \in Requests |-> <<>>]
    /\ body = [r \in Requests |-> [kind |-> "nil", id |-> 0]]
    /\ results = {}
    /\ ctxs = <<>>
    /\ clients = <<>>
    /\ pipes = <<>>
    /\ calls = [c \in Calls |-> IdleCall]
    /\ last = NoCall
    /\ ncalls = 0

\* The header calls on one request and its dispatch.
HeaderNext ==
    \/ \E key \in HeaderNames, value \in HeaderValues : WithHeader("r1", key, value)
    \/ \E key \in HeaderNames, value \in HeaderValues : WithMultiValuedHeader("r1", key, value)
    \/ WithJSONResult("r1")
    \/ WithXMLResult("r1")
    \/ DoBegin("c1", "r1", "none", 0, "POST", "http://localhost")
    \/ DoSetTimeout("c1")
    \/ DoSend("c1")
    \/ TransportRespond("c1", 200, <<"1", "2">>, FALSE)
    \/ TransportFail("c1")

SpecHeader == Init /\ [][HeaderNext]_vars

\* The request each call dispatches.
RequestOf(c) == IF c = "c1" THEN "r1" ELSE "r2"

\* No call of Do has begun. Clients and contexts are made before the calls:
\* a context is a value, and one derived later changes nothing for a call
\* that holds another.
NoneBegun == \A c \in Calls : calls[c].pc = "idle"

\* Clients, contexts and timeouts: two requests, each dispatched once,
\* one after the other or concurrently.
ClientNext ==
    \/ NoneBegun /\ NewClient(5, "default")
    \/ NoneBegun /\ \E ctx \in 0..Len(ctxs), h \in 0..Len(clients) : AttachClientToContext(ctx, h)
    \/ NoneBegun /\ \E ctx \in 0..Len(ctxs) : DeriveContext(ctx)
    \/ SetDefaultClientTimeout(30)
    \/ \E r \in Requests, d \in Durations : WithTimeout(r, d)
    \/ \E c \in Calls, ctx \in 0..Len(ctxs), t \in Targets :
          DoBegin(c, RequestOf(c), "none", ctx, t.method, t.url)
    \/ \E c \in Calls : DoSetTimeout(c)
    \/ \E c \in Calls : DoSend(c)
    \/ \E c \in Calls : TransportRespond(c, 200, <<"1", "2">>, FALSE)
    \/ \E c \in Calls : TransportFail(c)

SpecClient == Init /\ [][ClientNext]_vars

\* Bodies and results: one request, its pipes, and its dispatch through
\* the default client or through a client attached to the context.
BodyNext ==
    \/ \E v \in {[t |-> "int", n |-> 12], [t |-> "chan", n |-> 0]} : WithJSONBody("r1", v)
    \/ \E v \in {[t |-> "int", n |-> 12], [t |-> "bigchan", n |-> 0]} : WithXMLBody("r1", v)
    \/ WithBody("r1")
    \/ WithContentType("r1", xmlMIME)
    \/ WithResult("r1")
    \/ WithJSONResult("r1")
    \/ WithXMLResult("r1")
    \/ \E i \in DOMAIN pipes : ProducerClose(i)
    \/ ncalls = 0 /\ NewClient(5, "echo")
    \/ ncalls = 0 /\ \E h \in 1..Len(clients) : AttachClientToContext(0, h)
    \/ \E wr \in Via("r1"), ctx \in 0..Len(ctxs) :
          DoBegin("c1", "r1", wr, ctx, "POST", "http://localhost")
    \/ DoSetTimeout("c1")
    \/ DoSend("c1")
    \/ \E n \in 1..MaxRead : TransportRead("c1", n)
    \/ \E resp \in Responses : TransportRespond("c1", resp.status, resp.data, resp.fail)
    \/ TransportFail("c1")
    \/ TransportEcho("c1")
    \/ ResultRead("c1")

SpecBody == Init /\ [][BodyNext]_vars

Next == HeaderNext \/ ClientNext \/ BodyNext

Spec == Init /\ [][Next]_vars

(***************************************************************************)
(* The claims.                                                             *)
(***************************************************************************)

\* Call c takes the step of Do that leads from one position to another.
Stepped(c, from, to) == calls[c].pc = from /\ calls'[c].pc = to

\* The step is the builder call op.
Called(op) == last'.seq # last.seq /\ last'.op = op

\* The method or URL of the call is malformed.
Malformed(t) == t.method = "BAD METHOD" \/ t.url = "://localhost"

\* C1: when withResult.Do of WithJSONResult gets a response whose body is
\* malformed JSON, the call fails with a decode error that wraps the parse
\* failure, and the Result returned is not nil, so that the caller can read
\* the response and the raw bytes.
C1_DecodeFailureKeepsResponse ==
    \A c \in Calls :
        ( /\ calls[c].pc = "done"
          /\ calls[c].wr = "json"
          /\ calls[c].resp.kind = "static"
          /\ ~calls[c].resp.fail
          /\ JSONUnmarshal(calls[c].resp.data).err # "nil" )
        => /\ calls[c].err.kind = "decode"
           /\ calls[c].err.cause = JSONUnmarshal(calls[c].resp.data).err
           /\ ~calls[c].result.nil

\* C2: WithJSONResult (WithXMLResult) sets the Accept header to its MIME
\* type when the caller has set no Accept header, and leaves the values of
\* an Accept header the caller has set as they are, whatever the casing of
\* the name and whatever the values.
C2_AcceptNeverOverwritten ==
    [][ \A op \in {"WithJSONResult", "WithXMLResult"} :
          Called(op) =>
            LET r == last'.req
                before == HeaderValuesOf(header[r], AcceptKey)
                after == HeaderValuesOf(header'[r], AcceptKey)
                mime == IF op = "WithJSONResult" THEN jsonMIME ELSE xmlMIME
            IN  IF before = <<>> THEN after = <<mime>> ELSE after = before ]_vars

\* C3: clientFromContext returns the client the context carries (the very
\* client, and the heap of clients is left as it is) when the nearest
\* attachment on the context's parent chain is a client that is not nil;
\* otherwise it returns a client that did not exist before, whose timeout
\* is the value DefaultClientTimeout has at that moment.
C3_Resolve ==
    [][ \A c \in Calls :
          Stepped(c, "idle", "resolved") =>
            LET v == ContextValue(calls'[c].ctx)
                h == calls'[c].client
            IN  IF v.ok /\ v.c # 0
                THEN h = v.c /\ clients' = clients
                ELSE /\ h \notin DOMAIN clients
                     /\ h \in DOMAIN clients'
                     /\ clients'[h].Timeout = DefaultClientTimeout
                     /\ \A k \in DOMAIN clients : clients'[k] = clients[k] ]_vars

\* Two calls have resolved the one attached client, the first through a
\* context derived from the attaching one, the second through another
\* context.
C3_Witness ==
    /\ calls["c1"].pc \notin {"idle"} /\ calls["c2"].pc \notin {"idle"}
    /\ calls["c1"].err.kind # "construct" /\ calls["c2"].err.kind # "construct"
    /\ calls["c1"].ctx # 0 /\ calls["c2"].ctx # 0
    /\ calls["c1"].ctx # calls["c2"].ctx
    /\ ctxs[calls["c1"].ctx].key = "other"
    /\ calls["c1"].client = calls["c2"].client
    /\ clients[calls["c1"].client].made = "caller"

\* C4: when withResult.Do returns after a dispatch that succeeded, on
\* every path (the body read to its end, a read failure partway, a decode
\* failure), all the bytes the body delivered have been read, the body has
\* been closed and a further Read of it fails; a Result that is returned
\* holds in RawData all the bytes the body delivered.
C4_BodyDrainedAndClosed ==
    \A c \in Calls :
        (calls[c].wr # "none" /\ calls[c].pc = "done" /\ calls[c].resp.kind # "none")
        => /\ calls[c].respClosed = 1
           /\ BodyRead(calls[c], 1).err # "nil"
           /\ BodyRead(calls[c], 1).data = <<>>
           /\ calls[c].resp.kind = "static" => calls[c].raw = calls[c].resp.data
           /\ calls[c].resp.kind = "pipe" =>
                 calls[c].raw = pipes[calls[c].resp.pipe].delivered
           /\ ~calls[c].result.nil => calls[c].result.RawData = calls[c].raw

\* withResult.Do has returned the error of a read that failed after the
\* body's bytes, and the body is closed.
C4_Witness ==
    /\ calls["c1"].pc = "done"
    /\ calls["c1"].err.kind = "bodyread"
    /\ calls["c1"].resp.fail
    /\ calls["c1"].raw = <<"1", "2">>
    /\ calls["c1"].respClosed = 1

\* The two names are equal up to the case of their letters.
SameFold(a, b) == Len(a) = Len(b) /\ \A i \in DOMAIN a : ToLower(a[i]) = ToLower(b[i])

\* The header set of the request Do hands to its client is the builder's.
SentIsHeader ==
    \A c \in Calls :
        Stepped(c, "configured", "sending") => calls'[c].sentHeader = header[calls[c].req]

C5_OriginalStep ==
    /\ Called("WithHeader") =>
          \A k \in HeaderNames :
              SameFold(last'.key, k)
              => HeaderValuesOf(header'[last'.req], k) = <<last'.value>>
    /\ Called("WithMultiValuedHeader") =>
          \A k \in HeaderNames :
              SameFold(last'.key, k)
              => HeaderValuesOf(header'[last'.req], k) =
                    IF last.op = "WithHeader" /\ last.req = last'.req
                       /\ SameFold(last.key, last'.key)
                    THEN <<last'.value>>
                    ELSE HeaderValuesOf(header[last'.req], k) \o <<last'.value>>
    /\ SentIsHeader

\* C5, as claimed: names that differ only in the case of their letters
\* address the same header; Set after Add, and Add after Set, on the same
\* name replace the prior values; Add after Add accumulates in call order;
\* the header set sent by Do is the result of the calls.
C5_Original == [][C5_OriginalStep]_vars

\* The names that address the header of name a: a itself and, when a
\* consists of token characters, the names equal to it up to case.
SameHeader(a, b) == a = b \/ (SameFold(a, b) /\ ValidName(a))

C5_Step ==
    /\ Called("WithHeader") =>
          \A k \in HeaderNames :
              HeaderValuesOf(header'[last'.req], k) =
                 IF SameHeader(last'.key, k) THEN <<last'.value>>
                 ELSE HeaderValuesOf(header[last'.req], k)
    /\ Called("WithMultiValuedHeader") =>
          \A k \in HeaderNames :
              HeaderValuesOf(header'[last'.req], k) =
                 IF SameHeader(last'.key, k)
                 THEN HeaderValuesOf(header[last'.req], k) \o <<last'.value>>
                 ELSE HeaderValuesOf(header[last'.req], k)
    /\ SentIsHeader

\* C5, amended: names of token characters that differ only in the case of
\* their letters address the same header, a name with another byte (a
\* space) addresses a header of its own; Set replaces the values of the
\* name, Add appends to them in call order, after Set as after Add; no
\* other header changes; the header set sent by Do is the request's.
C5_SetReplacesAddAppends == [][C5_Step]_vars

\* Do has handed its client a header set in which Add has appended to the
\* value Accept had under another casing, beside a header whose name has a
\* space.
C5_Witness ==
    /\ calls["c1"].pc = "sending"
    /\ last.op = "WithMultiValuedHeader"
    /\ last.key = AcceptKey
    /\ HeaderValuesOf(calls["c1"].sentHeader, <<"a", "c", "c", "e", "p", "t">>) = <<"", xmlMIME>>
    /\ Len(HeaderValuesOf(calls["c1"].sentHeader, <<"x", " ", "i", "d">>)) = 1
    /\ HeaderValuesOf(calls["c1"].sentHeader, <<"X", " ", "I", "D">>) = <<>>

\* a is an initial part of b.
IsPrefix(a, b) == Len(a) <= Len(b) /\ SubSeq(b, 1, Len(a)) = a

RECURSIVE Flatten(_)
Flatten(chunks) == IF chunks = <<>> THEN <<>> ELSE Head(chunks) \o Flatten(Tail(chunks))

\* The request body of the call is the pipe of WithJSONBody.
JSONBodied(c) ==
    calls[c].reqBody.kind = "pipe" /\ pipes[calls[c].reqBody.id].format = "json"

\* The Content-Type is that of the latest of WithJSONBody, WithXMLBody,
\* WithContentType and the header calls on that name, and it is sent as
\* it is.
C6_ContentTypeStep ==
    /\ Called("WithJSONBody") =>
          HeaderValuesOf(header'[last'.req], ContentTypeKey) = <<jsonMIME>>
    /\ Called("WithContentType") =>
          HeaderValuesOf(header'[last'.req], ContentTypeKey) = <<last'.value>>
    /\ ( /\ last'.seq # last.seq
         /\ last'.op \notin {"WithJSONBody", "WithXMLBody", "WithContentType"}
         /\ ~SameFold(last'.key, ContentTypeKey) )
       => HeaderValuesOf(header'[last'.req], ContentTypeKey) =
             HeaderValuesOf(header[last'.req], ContentTypeKey)
    /\ SentIsHeader

C6_OriginalInv ==
    \A c \in Calls :
        JSONBodied(c) =>
            LET m == JSONMarshal(pipes[calls[c].reqBody.id].value)
            IN  /\ calls[c].reqEOF => (m.err = "nil" /\ calls[c].sentBody = m.bytes)
                /\ (calls[c].resp.kind = "pipe" /\ ~calls[c].result.nil)
                      => calls[c].result.RawData = m.bytes

\* C6, as claimed: the body the transport has read to its end is, byte for
\* byte, the standalone JSON serialization of v, and the Content-Type sent
\* is application/json unless a later call has set another.
C6_Original == []C6_OriginalInv /\ [][C6_ContentTypeStep]_vars

C6_Inv ==
    \A c \in Calls :
        JSONBodied(c) =>
            LET m == JSONMarshal(pipes[calls[c].reqBody.id].value)
                sent == m.bytes \o <<"\n">>
            IN  /\ m.err = "nil" => IsPrefix(calls[c].sentBody, sent)
                /\ calls[c].reqEOF => (m.err = "nil" /\ calls[c].sentBody = sent)
                /\ (calls[c].resp.kind = "pipe" /\ ~calls[c].result.nil)
                      => calls[c].result.RawData = sent

\* C6, amended: the body the transport reads is the JSON serialization of
\* v followed by one newline byte, in order, nothing else added and nothing
\* dropped, then the end of the stream; the Content-Type sent is
\* application/json unless a later call has set another.
C6_BodyIsEncodingAndNewline == []C6_Inv /\ [][C6_ContentTypeStep]_vars

\* The transport has read the body of WithJSONBody(12) to its end.
C6_Witness ==
    /\ JSONBodied("c1")
    /\ calls["c1"].reqEOF
    /\ calls["c1"].sentBody = <<"1", "2", "\n">>
    /\ HeaderValuesOf(calls["c1"].sentHeader, ContentTypeKey) = <<jsonMIME>>

C7_Step ==
    \A op \in {"WithJSONBody", "WithXMLBody"} :
        Called(op) =>
            LET b == body'[last'.req]
            IN  /\ b.kind = "pipe"
                /\ b.id \notin DOMAIN pipes
                /\ pipes'[b.id].pc = "write"
                /\ pipes'[b.id].werr = "nil"
                /\ calls' = calls

C7_Inv ==
    \A c \in Calls :
        calls[c].reqBody.kind = "pipe" =>
            LET p == pipes[calls[c].reqBody.id]
                e == Encode(p.format, p.value)
            IN  /\ (calls[c].err.kind = "transport" /\ calls[c].err.cause # "net/http")
                      => (e.err # "nil" /\ calls[c].err.cause = e.err)
                /\ (calls[c].err.kind = "bodyread" /\ calls[c].resp.kind = "pipe")
                      => (e.err # "nil" /\ calls[c].err.cause = e.err)
                /\ IsPrefix(calls[c].sentBody, Flatten(e.chunks))
                /\ calls[c].reqEOF => (e.err = "nil" /\ calls[c].sentBody = Flatten(e.chunks))
                /\ (calls[c].resp.kind = "pipe" /\ ~calls[c].result.nil)
                      => (e.err = "nil" /\ calls[c].result.RawData = Flatten(e.chunks))

\* C7: WithJSONBody and WithXMLBody install the pipe as the body whether
\* or not the value can be encoded, and report nothing; an encoding failure
\* reaches the consumer as the error of a read of the body, and that error
\* is the error of Encode; after an encoding that succeeds the consumer
\* reads the bytes and then the end of the stream, without an error.
C7_EncodeErrorDeferred == []C7_Inv /\ [][C7_Step]_vars

\* Do has returned the error of json's encoder, which the transport met
\* reading the body.
C7_Witness ==
    /\ calls["c1"].pc = "done"
    /\ JSONBodied("c1")
    /\ calls["c1"].err = [kind |-> "transport", cause |-> "json: unsupported type"]

\* No Do has taken the pipe as the body of its request: Do was not called
\* on the request that holds it, or a later body method replaced it.
Unconsumed(i) ==
    \A c \in Calls : ~(calls[c].reqBody.kind = "pipe" /\ calls[c].reqBody.id = i)

\* The transport has read the body of the call, a pipe, to its end.
ReadToEnd(c) == calls[c].reqBody.kind = "pipe" /\ calls[c].reqEOF

\* The goroutine encoding into the body of the call has terminated.
ProducerExited(c) ==
    calls[c].reqBody.kind = "pipe" /\ pipes[calls[c].reqBody.id].pc = "exited"

\* Once the transport has read the body to its end the goroutine
\* terminates: the end of the stream is the goroutine's own close.
C11_Terminates == \A c \in Calls : ReadToEnd(c) ~> ProducerExited(c)

C11_OriginalInv ==
    \A i \in DOMAIN pipes : Unconsumed(i) => pipes[i].pc = "write"

\* C11, as claimed: for every value passed, the goroutine of a pipe that
\* no Do reads never terminates; when the transport reads the body to its
\* end the goroutine eventually terminates.
C11_Original == []C11_OriginalInv /\ C11_Terminates

C11_Inv ==
    \A i \in DOMAIN pipes :
        Unconsumed(i) =>
            LET e == Encode(pipes[i].format, pipes[i].value)
            IN  /\ e.chunks # <<>> =>
                      /\ pipes[i].pc = "write"
                      /\ pipes[i].pending = e.chunks
                      /\ ~PipeDone(pipes[i])
                /\ (e.chunks = <<>> /\ pipes[i].pc = "exited") =>
                      /\ e.err # "nil"
                      /\ pipes[i].werr = e.err

\* C11, amended: the goroutine of a pipe that no Do reads never terminates
\* when the encoding of the value writes to the pipe (its first Write
\* blocks); for a value whose encoding fails before any Write it closes
\* the pipe with that error and terminates, with no reader; when the
\* transport reads the body to its end the goroutine eventually terminates.
C11_UnreadPipeBlocksProducer == []C11_Inv /\ C11_Terminates

\* The pipe of a first WithJSONBody(12), replaced by a second, still has
\* its goroutine blocked after the transport read the second to its end
\* and that goroutine terminated.
C11_Witness ==
    /\ Len(pipes) = 2
    /\ Unconsumed(1)
    /\ pipes[1].value.t = "int"
    /\ pipes[1].pc = "write"
    /\ calls["c1"].reqBody = [kind |-> "pipe", id |-> 2]
    /\ calls["c1"].reqEOF
    /\ pipes[2].pc = "exited"

\* The call has resolved its client (the request was constructed).
Resolved(c) == calls[c].pc # "idle" /\ calls[c].err.kind # "construct"

C8_Inv ==
    \A c \in Calls :
        /\ calls[c].nExec <= 1
        /\ (calls[c].pc # "idle" /\ Malformed(calls[c].target)) =>
              /\ calls[c].pc = "done"
              /\ calls[c].err.kind = "construct"
              /\ calls[c].nExec = 0
              /\ calls[c].client = 0
        /\ (calls[c].pc = "done" /\ calls[c].err.kind = "transport") => calls[c].nExec = 1

C8_Step ==
    \A c \in Calls :
        (calls[c].pc = "idle" /\ calls'[c].pc # "idle" /\ Malformed(calls'[c].target))
        => clients' = clients

\* C8: a call of Do hands the request to the transport at most once (a
\* failed round trip is returned, not repeated), and a call whose method or
\* URL is malformed ends with the construction error, the transport never
\* run, no client resolved and no client's timeout written.
C8_ConstructionFailsBeforeNetwork == []C8_Inv /\ [][C8_Step]_vars

\* One call has failed at construction, the other at the round trip.
C8_Witness ==
    /\ calls["c1"].pc = "done" /\ calls["c1"].err.kind = "construct"
    /\ calls["c1"].target.method = "BAD METHOD"
    /\ calls["c2"].pc = "done" /\ calls["c2"].err.kind = "transport"
    /\ calls["c2"].nExec = 1

C9_Fresh ==
    \A c \in Calls, d \in Calls :
        (c # d /\ Resolved(c) /\ Resolved(d) /\ ~Attached(calls[c].ctx))
        => calls[c].client # calls[d].client

C9_Step ==
    \A c \in Calls :
        Stepped(c, "configured", "sending") =>
            LET r == calls[c].req
                alone == \A d \in Calls \ {c} : calls[d].client # calls[c].client
            IN  /\ (~Attached(calls[c].ctx) /\ timeout[r] = <<>>)
                      => calls'[c].execTimeout = <<DefaultClientTimeout>>
                /\ (alone /\ timeout[r] # <<>>)
                      => calls'[c].execTimeout = timeout[r]

\* C9: the client of a call whose context carries none is made for that
\* call and is no other call's client, so that in every interleaving such a
\* call runs its request under DefaultClientTimeout when its request has no
\* timeout, and a call that shares its client with no other call runs its
\* request under its request's timeout when it has one.
C9_DefaultClientDoesNotLeak == []C9_Fresh /\ [][C9_Step]_vars

\* Both calls went through default clients: the first ran under its
\* request's timeout, the second, sent after it, under DefaultClientTimeout.
C9_Witness ==
    /\ ~Attached(calls["c1"].ctx) /\ ~Attached(calls["c2"].ctx)
    /\ timeout["r1"] = <<10>> /\ timeout["r2"] = <<>>
    /\ calls["c1"].pc = "done" /\ calls["c1"].execTimeout = <<10>>
    /\ calls["c2"].pc = "sending" /\ calls["c2"].execTimeout = <<DefaultClientTimeout>>

C10_Step ==
    /\ \A c \in Calls :
          (Stepped(c, "resolved", "configured") /\ timeout[calls[c].req] # <<>>)
          => clients'[calls[c].client].Timeout = timeout[calls[c].req][1]
    /\ \A h \in DOMAIN clients :
          clients'[h].Timeout # clients[h].Timeout
          => \E c \in Calls :
                /\ Stepped(c, "resolved", "configured")
                /\ calls[c].client = h
                /\ timeout[calls[c].req] = <<clients'[h].Timeout>>
    /\ \A c \in Calls :
          Stepped(c, "configured", "sending")
          => calls'[c].execTimeout = <<clients[calls[c].client].Timeout>>
    /\ \A c \in Calls, d \in Calls :
          ( /\ c # d
            /\ Stepped(c, "configured", "sending")
            /\ timeout[calls[c].req] = <<>>
            /\ calls[d].client = calls[c].client
            /\ calls[d].pc \in {"configured", "sending", "done"}
            /\ timeout[calls[d].req] # <<>> )
          => calls'[c].execTimeout = timeout[calls[d].req]

\* C10: the timeout of a request is written into the resolved client in
\* place; a client's timeout changes by such a write only (it is never put
\* back); the request runs under the timeout the client holds when it is
\* sent. So a call without a timeout that is sent through a client another
\* call has written its timeout into runs under that other timeout.
C10_SharedClientTimeout == [][C10_Step]_vars

\* Two calls with different timeouts share a client, and the first has
\* been sent under the timeout of the second.
C10_Witness ==
    /\ calls["c1"].client = calls["c2"].client
    /\ calls["c1"].client # 0
    /\ timeout["r1"] # <<>> /\ timeout["r2"] # <<>>
    /\ timeout["r1"] # timeout["r2"]
    /\ calls["c1"].execTimeout = timeout["r2"]

====
